---- MODULE Spec2Model ----
(***************************************************************************)
(* The ad-funnel widget of src/adshare-modal.js (lines 1819-3161): option  *)
(* resolution, the two presentation hosts (picoModal overlay, native       *)
(* container), the content-variant dispatcher, the countdown chain, the    *)
(* media-player handle and the close routine, as one state machine.        *)
(*                                                                         *)
(* Modelled state: the module-level variables of the widget, the setTimeout*)
(* queue, and the facts about the document the widget's control flow reads *)
(* (host elements, the close button, which variant the host holds, the     *)
(* video element).  The page is assumed to satisfy the widget's DOM        *)
(* contract (#content, #contentBoxContainer, #download, .aC exist).  The   *)
(* documents written into the ad iframes are not part of the state.        *)
(***************************************************************************)
EXTENDS Integers, Sequences, FiniteSets, TLC

(***************************************************************************)
(* JavaScript values.  Every value is a record of one shape so that any    *)
(* two values can be compared: t is the type tag, n the numeric reading,   *)
(* s the text.  "numstr" is a string holding the decimal numeral of n      *)
(* (what sessionStorage returns for a stored number).                      *)
(***************************************************************************)
Undef == [t |-> "undef", n |-> 0, s |-> ""]

Null == [t |-> "null", n |-> 0, s |-> ""]

Bool(b) == [t |-> "bool", n |-> IF b THEN 1 ELSE 0, s |-> ""]

Num(k) == [t |-> "num", n |-> k, s |-> ""]

Str(x) == [t |-> "str", n |-> 0, s |-> x]

NumStr(k) == [t |-> "numstr", n |-> k, s |-> ""]

Fn(x) == [t |-> "fn", n |-> 0, s |-> x]

\* ToBoolean: what `||` and `if (..)` test.
Truthy(v) ==
    CASE v.t = "undef" -> FALSE
      [] v.t = "null" -> FALSE
      [] v.t = "bool" -> v.n = 1
      [] v.t = "num" -> v.n # 0
      [] v.t = "str" -> v.s # ""
      [] OTHER -> TRUE

\* a || b
Or(a, b) == IF Truthy(a) THEN a ELSE b

\* typeof v == "string"
IsString(v) == v.t \in {"str", "numstr"}

\* ToNumber yields NaN
IsNaN(v) == v.t \in {"undef", "fn"} \/ (v.t = "str" /\ v.s # "")

\* ToNumber, where it is not NaN
ToNumber(v) == IF v.t \in {"num", "numstr", "bool"} THEN v.n ELSE 0

\* v < 0
LtZero(v) == ~IsNaN(v) /\ ToNumber(v) < 0

\* v <= 0 and v > 0 (both false on NaN)
LeqZero(v) == ~IsNaN(v) /\ ToNumber(v) <= 0

GtZero(v) == ~IsNaN(v) /\ ToNumber(v) > 0

\* v == 'text' for a string literal
EqStr(v, x) == v.t = "str" /\ v.s = x

(***************************************************************************)
(* Option keys and the configuration object.                               *)
(***************************************************************************)
\* the names applyOptions passes to determineOptionValue / getSessionStorageOverride
OptionKeys ==
    {"adTagUrl", "fallBackAdTagUrl", "position", "integration", "header", "content",
     "countdownDuration", "premiumButtonUrl", "videoPath", "bannerContentUnitId",
     "afterClose", "closeModalAutomatically", "iframeUrl", "timeout",
     "videoAdTimeout", "assetPath", "download", "locale", "debug", "e404",
     "vastEndPoint"}

\* the fields of moduleOptions, nested ones written with a dot
ConfigFields ==
    (OptionKeys \ {"videoPath", "vastEndPoint"}) \cup
    {"playerOptions.videoPath", "ima.id", "ima.adTagUrl", "ima.debug", "ima.locale",
     "ima.vpaidMode"}

\* an object literal is the function from its own property names to values;
\* this is the one with no properties
EmptyObject == [k \in {} |-> Undef]

\* obj[name]: undefined for a name the object does not have
Get(obj, name) == IF name \in DOMAIN obj THEN obj[name] ELSE Undef

\* var moduleOptions = {}
EmptyConfig == [f \in ConfigFields |-> Undef]

defaultOptions ==
    [f \in ConfigFields |->
        CASE f = "locale" -> Null
          [] f = "afterClose" -> Null
          [] f = "closeModalAutomatically" -> Bool(FALSE)
          [] f = "countdownDuration" -> Num(30)
          [] f = "timeout" -> Num(0)
          [] f = "videoAdTimeout" -> Num(7000)
          [] f = "bannerContentUnitId" -> Num(3510730)
          [] f = "content" -> Str("smart")
          [] f = "header" -> Str("default")
          [] f = "integration" -> Str("modal")
          [] f = "position" -> Str("freedownload")
          [] f = "assetPath" -> Str("./lib/")
          [] f = "iframeUrl" -> Str("http://www.neuestens.de/recommendations/videoembed.html")
          [] f = "adTagUrl" -> Str("http://adfarm1.adition.com/banner?sid=3508808&wpt=X")
          [] f = "fallBackAdTagUrl" -> Str("http://adfarm1.adition.com/banner?sid=3552599&wpt=X")
          [] f = "premiumButtonUrl" -> Str("http://uploaded.net/register")
          [] f = "debug" -> Bool(FALSE)
          [] f = "download" -> Bool(TRUE)
          [] f = "e404" -> Bool(FALSE)
          [] f = "playerOptions.videoPath" -> Str("./vids/")
          [] f = "ima.id" -> Str("adshare-videoad")
          [] f = "ima.adTagUrl" -> Str("http://adfarm1.adition.com/banner?sid=3508808&wpt=X")
          [] f = "ima.debug" -> Bool(FALSE)
          [] f = "ima.locale" -> Str("en")
          [] f = "ima.vpaidMode" -> Str("insecure")
          [] OTHER -> Undef]

\* getSessionStorageOverride(attributeName): the stored string, null when the
\* item is absent or reading throws, undefined when there is no sessionStorage
getSessionStorageOverride(mode, store, attributeName) ==
    CASE mode = "absent" -> Undef
      [] mode = "throws" -> Null
      [] OTHER -> IF attributeName \in DOMAIN store THEN store[attributeName] ELSE Null

\* determineOptionValue(name), with options already defaulted to {}
determineOptionValue(mode, store, cfg, opts, mo, name) ==
    Or(getSessionStorageOverride(mode, store, name),
       Or(Get(cfg, name), Or(Get(opts, name), Get(mo, name))))

\* "true"/"false" strings to booleans, other values untouched
StringToBoolean(v) == IF IsString(v) THEN Bool(EqStr(v, "true")) ELSE v

\* applyOptions(opts): the resulting moduleOptions
applyOptions(mode, store, cfg, opts) ==
    LET base == defaultOptions
        o == IF Truthy(opts.self) THEN opts.props ELSE EmptyObject
        det(name) == determineOptionValue(mode, store, cfg, o, base, name)
        plain == (OptionKeys \ {"videoPath", "vastEndPoint"})
        m1 == [f \in ConfigFields |->
                  IF f \in plain THEN det(f)
                  ELSE IF f = "playerOptions.videoPath" THEN det("videoPath")
                  ELSE base[f]]
        m2 == IF LeqZero(m1["countdownDuration"])
              THEN [m1 EXCEPT !["closeModalAutomatically"] = Bool(FALSE)]
              ELSE m1
        m3 == [m2 EXCEPT !["closeModalAutomatically"] = StringToBoolean(@),
                         !["ima.debug"] = StringToBoolean(@),
                         !["download"] = StringToBoolean(@)]
        m4 == [m3 EXCEPT !["ima.debug"] = m3["debug"],
                         !["ima.adTagUrl"] = m3["adTagUrl"]]
        m5 == [m4 EXCEPT !["ima.adTagUrl"] =
                  Or(getSessionStorageOverride(mode, store, "vastEndPoint"),
                     Or(Get(o, "vastEndPoint"), m4["ima.adTagUrl"]))]
    IN  IF Truthy(opts.self) THEN m5 ELSE base

\* the argument of the entry point: no argument at all, or an object literal
NoArg == [self |-> Undef, props |-> EmptyObject]

Obj(props) == [self |-> [t |-> "obj", n |-> 0, s |-> ""], props |-> props]

(***************************************************************************)
(* Bounds of the model and constants of the program.                       *)
(***************************************************************************)
\* external events (direct entry-point calls, clicks, messages, player events)
\* per run
MaxEvents == 3

\* no timer runs after this instant
MaxNow == 20000

\* entries the page environment may hold in sessionStorage, funnelmecfg and the
\* caller's object together (option resolution)
MaxEntries == 3

CountdownUnitMs == 1250

CountdownPollMs == 100

SmartSwitchMs == 20000

MixSwitchMs == 15000

\* the clock is observed at multiples of TickMs, half a countdown unit; a timer
\* runs at the first such instant at or after its due time
TickMs == CountdownUnitMs \div 2

VARIABLES
    sessionStorage,         \* window.sessionStorage: key -> string or null
    storageMode,            \* "ok", "throws" (reading throws), "absent"
    funnelmecfg,            \* window.funnelmecfg
    pageOpts,               \* the options object the page passes to the entry point
    lang,                   \* getBrowserLanguage()
    marker404,              \* #content.children[2] has class aC
    now,                    \* new Date().getTime()
    budget,                 \* external events left
    options,                \* var options
    moduleOptions,          \* var moduleOptions
    error404,               \* var error404
    modal,                  \* var modal: "null" or "modal"
    container,              \* var container: "null" or "box"
    player,                 \* var player: "undefined", "null" or "player"
    playerInitialized,      \* var playerInitialized
    adsharecountdownstart,  \* var adsharecountdownstart, Undefined until set
    startedVideoAd,         \* var startedVideoAd
    anotherAdScheduled,     \* var anotherAdScheduled
    closingOfPopupScheduled, \* var closingOfPopupScheduled
    timers,                 \* pending setTimeout callbacks, in the order set
    listeners,              \* click listeners on the trigger element, message listener
    dom,                    \* the document, as far as the widget reads it
    players,                \* media player instances created and not disposed (live),
                            \* and those of them set up with event handlers (wired)
    afterCloseCalls,        \* invocations of the configured afterClose callback
    lastAdStart,            \* history: the instant of the latest adstart event
    last                    \* what the handler that ran last did

vars ==
    <<sessionStorage, storageMode, funnelmecfg, pageOpts, lang, marker404, now, budget,
      options, moduleOptions, error404, modal, container, player, playerInitialized,
      adsharecountdownstart, startedVideoAd, anotherAdScheduled,
      closingOfPopupScheduled, timers, listeners, dom, players, afterCloseCalls,
      lastAdStart, last>>

envVars == <<sessionStorage, storageMode, funnelmecfg, pageOpts, lang, marker404>>

\* adsharecountdownstart before startCountdownTimer has ever run
Undefined == 0 - 1

(***************************************************************************)
(* The program state as one record, so that a handler is the composition   *)
(* of the functions it calls.  exc: an exception is propagating.           *)
(***************************************************************************)
Cur ==
    [options |-> options, moduleOptions |-> moduleOptions, error404 |-> error404,
     modal |-> modal, container |-> container, player |-> player,
     playerInitialized |-> playerInitialized,
     adsharecountdownstart |-> adsharecountdownstart,
     startedVideoAd |-> startedVideoAd, anotherAdScheduled |-> anotherAdScheduled,
     closingOfPopupScheduled |-> closingOfPopupScheduled,
     timers |-> timers, listeners |-> listeners,
     dom |-> dom, players |-> players, afterCloseCalls |-> afterCloseCalls,
     exc |-> FALSE, disp |-> "none", closeCalls |-> 0, closeReturned |-> FALSE,
     hostAtClose |-> "none", created |-> 0, setups |-> 0]

HostKind(s) ==
    CASE s.modal # "null" /\ s.container # "null" -> "both"
      [] s.modal # "null" -> "modal"
      [] s.container # "null" -> "container"
      [] OTHER -> "none"

Commit(result, op) ==
    \E s \in {result} :
    /\ options' = s.options
    /\ moduleOptions' = s.moduleOptions
    /\ error404' = s.error404
    /\ modal' = s.modal
    /\ container' = s.container
    /\ player' = s.player
    /\ playerInitialized' = s.playerInitialized
    /\ adsharecountdownstart' = s.adsharecountdownstart
    /\ startedVideoAd' = s.startedVideoAd
    /\ anotherAdScheduled' = s.anotherAdScheduled
    /\ closingOfPopupScheduled' = s.closingOfPopupScheduled
    /\ timers' = s.timers
    /\ listeners' = s.listeners
    /\ dom' = s.dom
    /\ players' = s.players
    /\ afterCloseCalls' = s.afterCloseCalls
    /\ lastAdStart' = IF op = "adstart" THEN now ELSE lastAdStart
    /\ last' = [op |-> op, threw |-> s.exc, disp |-> s.disp, closeCalls |-> s.closeCalls,
                closeReturned |-> s.closeReturned, hostAtClose |-> s.hostAtClose,
                created |-> s.created, setups |-> s.setups, hostBefore |-> HostKind(Cur)]

\* throw: the rest of the call stack is skipped up to the nearest catch
Throw(s) == [s EXCEPT !.exc = TRUE]

\* catch (e) {}
Catch(s) == [s EXCEPT !.exc = FALSE]

\* setTimeout(callback, delay)
SetTimeout(s, kind, delay) ==
    [s EXCEPT !.timers = Append(@, [kind |-> kind, due |-> now + delay])]

\* the document of an empty page: no host element, no close button
EmptyDom ==
    [pico |-> 0, boxes |-> <<>>, closeShown |-> FALSE, shown |-> "none",
     headline |-> FALSE, ready |-> FALSE, videoEl |-> "none"]

\* A box is a #fakeContentBoxContainer element; dom.boxes lists them in document
\* order.  "btn": built by createContainer, its close button lies inside its
\* content div; "btn404": built by create404Container around balanced HTML,
\* likewise; "box404": built by create404Container around the 404 iframe HTML,
\* whose extra closing tag leaves the button outside the content div;
\* "wiped": a box whose content div, button included, has been overwritten.
BoxHasButton(b) == b \in {"btn", "btn404", "box404"}

\* some box of the document d still has its close button
AnyBoxButton(d) == \E i \in DOMAIN d.boxes : BoxHasButton(d.boxes[i])

\* document.getElementById('adshare-modal-content') finds an element: the
\* modal's wrapper or the content div of a createContainer box (the id
\* attribute create404Container writes is malformed)
HasModalContent(d) ==
    d.pico > 0 \/ \E i \in DOMAIN d.boxes : d.boxes[i] \in {"btn", "wiped"}

\* document.querySelector('.pico-close') finds an element
HasPicoClose(s) == s.dom.pico > 0 \/ AnyBoxButton(s.dom)

\* container.firstChild.innerHTML = ..: container is the first box of the
\* document; a close button inside its content div is overwritten
OverwriteBoxContent(d) ==
    IF d.boxes # <<>> /\ Head(d.boxes) \in {"btn", "btn404"}
    THEN LET w == [d EXCEPT !.boxes = <<"wiped">> \o Tail(d.boxes)]
         IN  [w EXCEPT !.closeShown = @ /\ (w.pico > 0 \/ AnyBoxButton(w))]
    ELSE d

(***************************************************************************)
(* Media player handle.                                                    *)
(***************************************************************************)
\* The ima plugin object (imaPlugin, registered by videojs.plugin('ima', ..))
\* defines requestAds, start, addContentEndedListener, ... but no member named
\* dispose: calling player.ima.dispose() raises a TypeError.
imaHasDispose == FALSE

\* videojs(videoElement) with one argument: the element's player, created on
\* the spot when the element has none.  el is what the argument refers to:
\* "tag" a video element without a player, "player" an element that has one.
videojsLookup(s, el) ==
    IF el = "tag"
    THEN [s EXCEPT !.players.live = @ + 1,
                   !.dom.videoEl = IF s.dom.videoEl = "tag" THEN "player" ELSE @]
    ELSE s

\* play.dispose(): the instance is gone and its element leaves the document
playerDispose(s) ==
    [s EXCEPT !.players.live = IF @ > 0 THEN @ - 1 ELSE 0,
              !.players.wired = IF @ > 0 THEN @ - 1 ELSE 0, !.dom.videoEl = "none"]

\* destroyVideoJsPlayer without its finally block: when disposing throws, the
\* handle and the flag keep their values
destroyVideoJsPlayerNoFinally(s, el) ==
    IF (el # "none" \/ s.player = "player") /\ ~imaHasDispose
    THEN IF el # "none" THEN videojsLookup(s, el) ELSE s
    ELSE [(IF el # "none" THEN playerDispose(videojsLookup(s, el))
           ELSE IF s.player = "player" THEN playerDispose(s) ELSE s)
          EXCEPT !.player = "null", !.playerInitialized = FALSE]

\* destroyVideoJsPlayer(videoElement); el = "none" when called without argument
\* (or with null)
destroyVideoJsPlayer(s, el) ==
    LET tried ==
            IF el # "none"
            THEN LET s1 == videojsLookup(s, el)
                 IN  IF imaHasDispose THEN playerDispose(s1) ELSE s1
            ELSE IF s.player = "player"
            THEN IF imaHasDispose THEN playerDispose(s) ELSE s
            ELSE s
    IN  [tried EXCEPT !.player = "null", !.playerInitialized = FALSE]

\* setupVideoJsPlayer(videoElement); el = "none" when getElementById found nothing
setupVideoJsPlayer(s, el) ==
    LET s1 == IF s.playerInitialized THEN destroyVideoJsPlayer(s, el) ELSE s
        s2 == [s1 EXCEPT !.playerInitialized = TRUE]
        \* the element as the destroyVideoJsPlayer call above left it
        el2 == CASE el = "none" -> "none"
                 [] s.playerInitialized -> IF imaHasDispose THEN "tag" ELSE "player"
                 [] OTHER -> el
    IN  CASE el2 = "none" ->
                \* videojs(null, ..) throws: not a valid element
                Throw(s2)
          [] el2 = "tag" ->
                \* new Player(videoElement, options, ready)
                [s2 EXCEPT !.players.live = @ + 1, !.players.wired = @ + 1,
                           !.dom.videoEl = IF @ = "tag" THEN "player" ELSE @,
                           !.player = "player", !.setups = @ + 1]
          [] OTHER ->
                \* the element already has a player: it is returned as it is
                [s2 EXCEPT !.player = "player"]

(***************************************************************************)
(* Close routine and the modal library's close().                          *)
(***************************************************************************)
\* the host element that held the content is removed from the document
DropHostContent(d) ==
    [d EXCEPT !.shown = "none", !.headline = FALSE, !.ready = FALSE,
              !.videoEl = "none",
              !.closeShown = @ /\ (d.pico > 0 \/ AnyBoxButton(d))]

\* moduleOptions.afterClose.apply(this) inside try/catch: a function is
\* invoked, any other truthy value raises a TypeError that is swallowed
invokeAfterClose(s) ==
    IF Truthy(s.moduleOptions["afterClose"]) /\ s.moduleOptions["afterClose"].t = "fn"
    THEN [s EXCEPT !.afterCloseCalls = @ + 1]
    ELSE s

RECURSIVE closePopup(_)
RECURSIVE picoClose(_)

\* modal.close() with an afterClose handler that only re-enters closePopup and
\* leaves out the configured callback
picoCloseSilent(s) ==
    IF s.dom.pico = 0
    THEN Throw(s)
    ELSE LET removed == [s EXCEPT !.dom.pico = @ - 1]
             b1 == [removed EXCEPT !.dom = DropHostContent(removed.dom)]
             b2 == Catch(destroyVideoJsPlayer(b1, "none"))
         IN  Catch(closePopup(b2))

\* modal.close(): beforeClose handlers, then forceClose and afterClose handlers
picoClose(s) ==
    IF s.dom.pico = 0
    THEN \* beforeClose: querySelector('.pico-content') is null
         Throw(s)
    ELSE LET removed == [s EXCEPT !.dom.pico = @ - 1]
             b1 == [removed EXCEPT !.dom = DropHostContent(removed.dom)]
             b2 == Catch(destroyVideoJsPlayer(b1, "none"))
             \* afterClose handler: try { closePopup(); afterClose.apply } catch
             a1 == closePopup(b2)
         IN  IF a1.exc THEN Catch(a1) ELSE invokeAfterClose(a1)

\* closePopup with the afterClose notification moved in front of the host
\* test: it runs whether or not a host is active
closePopupNotifiesFirst(s) ==
    LET entered == [s EXCEPT !.closeCalls = @ + 1,
                             !.hostAtClose = IF s.closeCalls = 0 THEN HostKind(s) ELSE @]
        s1 == invokeAfterClose(destroyVideoJsPlayer(entered, "none"))
        s2 == IF s1.modal # "null"
              THEN Catch(picoClose(s1))
              ELSE IF s1.container # "null"
              THEN IF s1.dom.boxes = <<>>
                   THEN Throw(s1)
                   ELSE LET c2 == [s1 EXCEPT !.dom.boxes = Tail(@)]
                        IN  [c2 EXCEPT !.dom = DropHostContent(c2.dom)]
              ELSE s1
    IN  IF s2.exc
        THEN s2
        ELSE [s2 EXCEPT !.container = "null", !.modal = "null", !.closeReturned = TRUE]

closePopup(s) ==
    LET entered == [s EXCEPT !.closeCalls = @ + 1,
                             !.hostAtClose = IF s.closeCalls = 0 THEN HostKind(s) ELSE @]
        s1 == destroyVideoJsPlayer(entered, "none")
        s2 == IF s1.modal # "null"
              THEN Catch(picoClose(s1))
              ELSE IF s1.container # "null"
              THEN LET c1 == invokeAfterClose(s1)
                   IN  IF c1.dom.boxes = <<>>
                       THEN Throw(c1)
                       ELSE LET c2 == [c1 EXCEPT !.dom.boxes = Tail(@)]
                            IN  [c2 EXCEPT !.dom = DropHostContent(c2.dom)]
              ELSE s1
    IN  IF s2.exc
        THEN s2
        ELSE [s2 EXCEPT !.container = "null", !.modal = "null", !.closeReturned = TRUE]

(***************************************************************************)
(* Countdown.                                                              *)
(***************************************************************************)
\* getCountdownTimeLeft counting one unit per 1000 ms
getCountdownTimeLeftSeconds(duration, start, t) ==
    duration - ((t - start) \div 1000)

\* getCountdownTimeLeft() for a numeric duration and a recorded start
getCountdownTimeLeft(duration, start, t) ==
    duration - ((t - start) \div CountdownUnitMs)

\* getCountdownTimeLeft() <= 0; false when the value is NaN (duration not a
\* number, or the countdown never started)
timeLeftElapsed(s) ==
    /\ ~IsNaN(s.moduleOptions["countdownDuration"])
    /\ s.adsharecountdownstart # Undefined
    /\ getCountdownTimeLeft(ToNumber(s.moduleOptions["countdownDuration"]),
                            s.adsharecountdownstart, now) <= 0

\* showCloseButton(): throws when the document has no .pico-close element
showCloseButton(s) ==
    IF HasPicoClose(s) THEN [s EXCEPT !.dom.closeShown = TRUE] ELSE Throw(s)

hideCloseButton(s) ==
    IF HasPicoClose(s) THEN [s EXCEPT !.dom.closeShown = FALSE] ELSE Throw(s)

\* countdownTimer()
countdownTimer(s) ==
    IF timeLeftElapsed(s)
    THEN LET s1 == IF s.dom.headline THEN [s EXCEPT !.dom.ready = TRUE] ELSE s
             s2 == showCloseButton(s1)
         IN  IF s2.exc THEN s2
             ELSE IF Truthy(s2.moduleOptions["closeModalAutomatically"])
             THEN closePopup(s2)
             ELSE s2
    ELSE IF s.dom.shown = "banner"
    THEN \* #adshare-countdown exists: moduleOptions.messages is undefined
         Throw(s)
    ELSE SetTimeout(s, "countdown", CountdownPollMs)

\* startCountdownTimer()
startCountdownTimer(s) ==
    SetTimeout([s EXCEPT !.adsharecountdownstart = now], "countdown", CountdownPollMs)

(***************************************************************************)
(* Presentation hosts and content variants.                                *)
(***************************************************************************)
\* moduleOptions.e404 == true || error404 == true: getHeaderSection returns ''
headerSuppressed(s) ==
    \/ (s.moduleOptions["e404"].t \in {"bool", "num", "numstr"} /\ s.moduleOptions["e404"].n = 1)
    \/ s.error404

\* the variants whose HTML starts with getHeaderSection()
HeaderVariants ==
    {"taboola", "taboola2nd", "video", "videobanner", "contentad", "contentadv2",
     "funnel", "iframe"}

\* the HTML fragment of a variant becomes the content of the host
setContent(s, variant) ==
    [s EXCEPT !.dom.shown = variant,
              !.dom.headline = (variant \in HeaderVariants /\ ~headerSuppressed(s)),
              !.dom.ready = FALSE,
              !.dom.videoEl = IF variant = "video" THEN "tag" ELSE "none"]

\* modal = createModalWindow(html); modal.show()
createModalWindow(s, variant) ==
    LET built == [setContent(s, variant) EXCEPT !.dom.pico = @ + 1, !.dom.closeShown = TRUE,
                                                !.modal = "modal", !.created = @ + 1]
    IN  \* afterShow
        IF GtZero(built.moduleOptions["countdownDuration"])
        THEN startCountdownTimer(hideCloseButton(built))
        ELSE built

\* container = createContainer(html)
createContainer(s, variant) ==
    [setContent(s, variant) EXCEPT !.dom.boxes = Append(@, "btn"), !.dom.closeShown = FALSE,
                                   !.container = "box", !.created = @ + 1]

\* container = create404Container(html)
create404Container(s, variant) ==
    [setContent(s, variant) EXCEPT
        !.dom.boxes = Append(@, IF variant = "iframe404" THEN "box404" ELSE "btn404"),
        !.dom.closeShown = TRUE, !.container = "box", !.created = @ + 1]

\* what the display functions differ in: the variant they build, whether the
\* modal branch disposes the player first, whether the modal branch re-runs
\* an elapsed countdown, whether the function ends by scheduling the player
DisplayFunctions ==
    [displayBannerAd |-> [variant |-> "banner", modalDestroy |-> FALSE, modalCountdown |-> FALSE],
     displayContentAdFunnel |-> [variant |-> "funnel", modalDestroy |-> FALSE, modalCountdown |-> TRUE],
     displayContentAd |-> [variant |-> "contentad", modalDestroy |-> FALSE, modalCountdown |-> FALSE],
     displayContentAdV2 |-> [variant |-> "contentadv2", modalDestroy |-> FALSE, modalCountdown |-> FALSE],
     displayContentIframe |-> [variant |-> "iframe", modalDestroy |-> FALSE, modalCountdown |-> TRUE],
     displayTalooba |-> [variant |-> "taboola", modalDestroy |-> FALSE, modalCountdown |-> FALSE],
     displayTalooba2ndCall |-> [variant |-> "taboola2nd", modalDestroy |-> FALSE, modalCountdown |-> FALSE],
     displayVideoAd |-> [variant |-> "video", modalDestroy |-> TRUE, modalCountdown |-> FALSE],
     displayVideoBanner |-> [variant |-> "videobanner", modalDestroy |-> FALSE, modalCountdown |-> FALSE]]

\* the branch of a display function taken when neither host exists
createHost(s, f) ==
    LET v == DisplayFunctions[f].variant
    IN  IF EqStr(s.moduleOptions["integration"], "native")
        THEN IF f = "displayContentAdFunnel" /\ s.error404
             THEN create404Container(s, "funnel404")
             ELSE startCountdownTimer(createContainer(s, v))
        ELSE createModalWindow(s, v)

\* displayBannerAd(), displayTalooba(), displayVideoAd(), ...: f names the function
display(s, f) ==
    LET p == DisplayFunctions[f]
        s0 == [s EXCEPT !.disp = f]
        body ==
            IF s0.modal # "null"
            THEN LET m1 == IF p.modalDestroy THEN destroyVideoJsPlayer(s0, "none") ELSE s0
                 IN  IF ~HasModalContent(m1.dom)
                     THEN \* getElementById('adshare-modal-content') is null
                          Throw(m1)
                     ELSE LET m2 == setContent(m1, p.variant)
                          IN  IF p.modalCountdown /\ timeLeftElapsed(m2)
                              THEN countdownTimer(m2)
                              ELSE m2
            ELSE IF s0.container # "null"
            THEN LET c0 == [s0 EXCEPT !.dom = OverwriteBoxContent(s0.dom)]
                     c1 == setContent(c0, p.variant)
                 IN  IF timeLeftElapsed(c1) THEN countdownTimer(c1) ELSE c1
            ELSE createHost(s0, f)
    IN  IF body.exc THEN body
        ELSE IF f = "displayVideoAd" THEN SetTimeout(body, "setup", 0)
        ELSE body

\* displayContent404Iframe()
displayContent404Iframe(s) ==
    create404Container([s EXCEPT !.disp = "displayContent404Iframe"], "iframe404")

\* the delay setTimeout uses for a configured value
TimerDelay(v) == IF IsNaN(v) \/ ToNumber(v) < 0 THEN 0 ELSE ToNumber(v)

\* the dispatch with the language test of 'optimizely1' left out
variantForAnyLanguage(content, lg) ==
    CASE EqStr(content, "optimizely1") -> "displayVideoAd"
      [] EqStr(content, "smart") -> "displayTalooba"
      [] EqStr(content, "mix1") -> "displayTalooba"
      [] EqStr(content, "mix2") -> "displayTalooba"
      [] EqStr(content, "videobanner") -> "displayVideoBanner"
      [] EqStr(content, "taboola") -> "displayTalooba"
      [] EqStr(content, "video") -> "displayVideoAd"
      [] EqStr(content, "taboola2ndcall") -> "displayTalooba2ndCall"
      [] EqStr(content, "banner") -> "displayBannerAd"
      [] EqStr(content, "contentad") -> "displayContentAdV2"
      [] EqStr(content, "contentadfunnel") -> "displayContentAdFunnel"
      [] EqStr(content, "iframe") -> "displayContentIframe"
      [] OTHER -> "none"

\* the display function displayAd picks for a content value and a browser
\* language when the page carries no 404 marker; "none" when no branch matches
variantFor(content, lg) ==
    CASE EqStr(content, "optimizely1") ->
            IF lg = "de" THEN "displayContentIframe" ELSE "displayVideoAd"
      [] EqStr(content, "smart") -> "displayTalooba"
      [] EqStr(content, "mix1") -> "displayTalooba"
      [] EqStr(content, "mix2") -> "displayTalooba"
      [] EqStr(content, "videobanner") -> "displayVideoBanner"
      [] EqStr(content, "taboola") -> "displayTalooba"
      [] EqStr(content, "video") -> "displayVideoAd"
      [] EqStr(content, "taboola2ndcall") -> "displayTalooba2ndCall"
      [] EqStr(content, "banner") -> "displayBannerAd"
      [] EqStr(content, "contentad") -> "displayContentAdV2"
      [] EqStr(content, "contentadfunnel") -> "displayContentAdFunnel"
      [] EqStr(content, "iframe") -> "displayContentIframe"
      [] OTHER -> "none"

\* the timer displayAd sets after the first variant: its kind and delay
followUp(s, lg) ==
    LET c == s.moduleOptions["content"]
    IN  CASE EqStr(c, "optimizely1") /\ lg # "de" ->
                [kind |-> "fallback", delay |-> TimerDelay(s.moduleOptions["videoAdTimeout"])]
          [] EqStr(c, "smart") /\ lg = "de" -> [kind |-> "smart", delay |-> SmartSwitchMs]
          [] EqStr(c, "mix1") /\ lg \in {"de", "en"} -> [kind |-> "mix1", delay |-> MixSwitchMs]
          [] EqStr(c, "mix2") /\ lg \in {"de", "en"} -> [kind |-> "mix2", delay |-> MixSwitchMs]
          [] OTHER -> [kind |-> "none", delay |-> 0]

\* displayAd()
displayAd(s) ==
    IF marker404
    THEN displayContent404Iframe(
             [s EXCEPT !.moduleOptions["e404"] = Bool(TRUE), !.error404 = TRUE])
    ELSE LET f == variantFor(s.moduleOptions["content"], lang)
             s1 == IF EqStr(s.moduleOptions["content"], "optimizely1") /\ lang = "de"
                   THEN [s EXCEPT !.moduleOptions["iframeUrl"] =
                                      Str("http://neuestens.de/facebook-videos/picks.html")]
                   ELSE s
             s2 == IF f = "none" THEN s1 ELSE display(s1, f)
             t == followUp(s, lang)
         IN  IF s2.exc \/ t.kind = "none" THEN s2 ELSE SetTimeout(s2, t.kind, t.delay)

\* the callback of the videoAdTimeout timer set for content 'optimizely1'
fallbackTimer(s) ==
    IF ~s.startedVideoAd
    THEN LET s1 == [s EXCEPT !.moduleOptions["ima.adTagUrl"] = s.moduleOptions["fallBackAdTagUrl"]]
         IN  display(destroyVideoJsPlayer(s1, "none"), "displayVideoAd")
    ELSE s

\* the callbacks of the 20 s and 15 s timers: if (modal) { display..() }
switchTimer(s, kind) ==
    IF s.modal # "null"
    THEN display(s, CASE kind = "smart" -> "displayContentIframe"
                      [] kind = "mix1" -> "displayContentAdV2"
                      [] OTHER -> "displayContentAdFunnel")
    ELSE s

\* receiveMessage(event), by event.data.type
receiveMessage(s, type) ==
    CASE type = "resize" ->
            \* querySelector('.pico-content iframe') must find the iframe
            IF s.dom.pico > 0 /\ s.dom.shown # "video" /\ s.dom.shown # "videobanner"
            THEN s ELSE Throw(s)
      [] type = "displaybanner" -> display(s, "displayBannerAd")
      [] type = "taboola" -> display(s, "displayTalooba")
      [] type = "contentreco" -> display(s, "displayContentAd")
      [] type = "closepopup" -> closePopup(s)
      [] type = "closetaboola" -> display(s, "displayContentAdFunnel")
      [] OTHER -> s

\* the non-string branch of adshareModal: applyOptions(param1), then
\* setTimeout(displayAd, moduleOptions.timeout)
startWidget(s, param) ==
    LET mo == applyOptions(storageMode, sessionStorage, funnelmecfg, param)
        s1 == [s EXCEPT !.options = param, !.moduleOptions = mo]
    IN  SetTimeout(s1, "displayAd", TimerDelay(mo["timeout"]))

\* the string branch of adshareModal: a click listener that calls
\* adshareModal(param2), and the message listener
attachListeners(s, param2) ==
    [s EXCEPT !.listeners.click = Append(@, param2), !.listeners.message = TRUE]

RECURSIVE runClickListeners(_, _)
\* a click on the trigger element runs every listener attached to it
runClickListeners(s, ls) ==
    IF ls = <<>> THEN s ELSE runClickListeners(startWidget(s, Head(ls)), Tail(ls))

(***************************************************************************)
(* The page: what it passes to the widget, and the event loop.             *)
(***************************************************************************)
Contents ==
    {"optimizely1", "smart", "mix1", "mix2", "videobanner", "taboola", "video",
     "taboola2ndcall", "banner", "contentad", "contentadfunnel", "iframe", "other"}

Langs == {"de", "en", "fr"}

\* an object literal holding the given properties
Literal(props) == Obj([k \in DOMAIN props |-> props[k]])

\* the option objects of the pages the lifecycle is explored for: every
\* content value, both integrations, a countdown of one unit or none, with
\* and without automatic close, and an afterClose callback
PageOptions ==
    { Literal([content |-> Str(c), integration |-> Str(i), countdownDuration |-> da[1],
               closeModalAutomatically |-> da[2], afterClose |-> Fn("afterClose")]) :
        c \in Contents, i \in {"modal", "native"},
        da \in {<<Num(1), Bool(FALSE)>>, <<Num(1), Bool(TRUE)>>, <<NumStr(0), Bool(FALSE)>>} }

\* the content values whose dispatch reads the browser language
LangSensitive == {"optimizely1", "smart", "mix1", "mix2"}

\* the pages explored: every language for the content values that read it, one
\* language for the others; the 404 marker with three content values
PageExplored(opts, lg, marker) ==
    LET c == opts.props["content"].s
    IN  /\ c \notin LangSensitive => lg = "en"
        /\ marker => (lg = "en" /\ c \in {"optimizely1", "taboola", "other"})

NoStorage == [k \in {} |-> Null]

InitProgram ==
    /\ now = 0
    /\ budget = MaxEvents
    /\ options = Obj(EmptyObject)
    /\ moduleOptions = EmptyConfig
    /\ error404 = FALSE
    /\ modal = "null"
    /\ container = "null"
    /\ player = "undefined"
    /\ playerInitialized = FALSE
    /\ adsharecountdownstart = Undefined
    /\ startedVideoAd = FALSE
    /\ anotherAdScheduled = FALSE
    /\ closingOfPopupScheduled = FALSE
    /\ timers = <<>>
    /\ listeners = [click |-> <<>>, message |-> FALSE]
    /\ dom = EmptyDom
    /\ players = [live |-> 0, wired |-> 0]
    /\ afterCloseCalls = 0
    /\ lastAdStart = Undefined
    /\ last = [op |-> "init", threw |-> FALSE, disp |-> "none", closeCalls |-> 0,
               closeReturned |-> FALSE, hostAtClose |-> "none", created |-> 0,
               setups |-> 0, hostBefore |-> "none"]

Init ==
    /\ sessionStorage = NoStorage
    /\ storageMode = "ok"
    /\ funnelmecfg = EmptyObject
    /\ pageOpts \in PageOptions
    /\ lang \in Langs
    /\ marker404 \in BOOLEAN
    /\ PageExplored(pageOpts, lang, marker404)
    /\ InitProgram

\* an external event is delivered at the current instant
Event == /\ budget > 0
         /\ budget' = budget - 1
         /\ UNCHANGED <<envVars, now>>

\* adshareModal(options) / adshareVideoAd(options)
CallWithOptions ==
    /\ Event
    /\ Commit(startWidget(Cur, pageOpts), "adshareModal")

\* adshareModal('#selector', options): the page wires its one trigger element
CallWithSelector ==
    /\ listeners.click = <<>>
    /\ UNCHANGED <<envVars, now, budget>>
    /\ Commit(attachListeners(Cur, pageOpts), "adshareModal")

\* the visitor clicks the trigger element
ClickTrigger ==
    /\ listeners.click # <<>>
    /\ Event
    /\ Commit(runClickListeners(Cur, listeners.click), "click")

MessageTypes == {"resize", "displaybanner", "taboola", "contentreco", "closepopup", "closetaboola"}

\* a frame posts a message to the window
Message ==
    /\ listeners.message
    /\ Event
    /\ \E type \in MessageTypes : Commit(receiveMessage(Cur, type), type)

\* the visitor clicks the modal's close button: picoModal's own click handler
ClickModalClose ==
    /\ dom.pico > 0 /\ dom.closeShown
    /\ Event
    /\ Commit(picoClose(Cur), "modalCloseClick")

\* the visitor clicks the close button of the native container
ClickContainerClose ==
    /\ AnyBoxButton(dom) /\ dom.closeShown
    /\ Event
    /\ Commit(closePopup(Cur), "containerCloseClick")

\* the visitor clicks the "download ready" headline
ClickHeadline ==
    /\ dom.ready
    /\ Event
    /\ Commit(closePopup(Cur), "headlineClick")

\* a player set up by setupVideoJsPlayer reports that an ad started
PlayerAdStart ==
    /\ players.wired > 0
    /\ Event
    /\ Commit([Cur EXCEPT !.startedVideoAd = TRUE], "adstart")

\* ... or that the ad ended: destroyVideoJsPlayer(videoElement)
PlayerAdEnd ==
    /\ players.wired > 0
    /\ Event
    /\ Commit(destroyVideoJsPlayer(Cur, "player"), "adend")

\* the index of the timer that runs next: the earliest due, first set
NextTimer ==
    CHOOSE i \in DOMAIN timers :
        \A j \in DOMAIN timers :
            timers[i].due < timers[j].due \/ (timers[i].due = timers[j].due /\ i <= j)

RemoveAt(seq, i) == SubSeq(seq, 1, i - 1) \o SubSeq(seq, i + 1, Len(seq))

TimerDue(kinds) ==
    /\ timers # <<>>
    /\ timers[NextTimer].due <= now
    /\ timers[NextTimer].kind \in kinds

\* the program state with the timer that runs next taken off the queue
Fired == [Cur EXCEPT !.timers = RemoveAt(timers, NextTimer)]

TimerDisplayAd ==
    /\ TimerDue({"displayAd"})
    /\ Commit(displayAd(Fired), "displayAd")
    /\ UNCHANGED <<envVars, now, budget>>

\* setTimeout(function () { setupVideoJsPlayer(getElementById("adshare-videoad")) }, 0)
TimerSetup ==
    /\ TimerDue({"setup"})
    /\ Commit(setupVideoJsPlayer(Fired, dom.videoEl), "setup")
    /\ UNCHANGED <<envVars, now, budget>>

TimerFallback ==
    /\ TimerDue({"fallback"})
    /\ Commit(fallbackTimer(Fired), "fallback")
    /\ UNCHANGED <<envVars, now, budget>>

TimerSwitch ==
    /\ TimerDue({"smart", "mix1", "mix2"})
    /\ Commit(switchTimer(Fired, timers[NextTimer].kind), "switch")
    /\ UNCHANGED <<envVars, now, budget>>

TimerCountdown ==
    /\ TimerDue({"countdown"})
    /\ Commit(countdownTimer(Fired), "countdown")
    /\ UNCHANGED <<envVars, now, budget>>

\* the first clock instant at or after t
TickAtOrAfter(t) == ((t + TickMs - 1) \div TickMs) * TickMs

\* time passes until the next timer is due
Advance ==
    /\ timers # <<>>
    /\ timers[NextTimer].due > now
    /\ TickAtOrAfter(timers[NextTimer].due) <= MaxNow
    /\ now' = TickAtOrAfter(timers[NextTimer].due)
    /\ UNCHANGED <<envVars, budget, options, moduleOptions, error404, modal, container,
                   player, playerInitialized, adsharecountdownstart, startedVideoAd,
                   anotherAdScheduled, closingOfPopupScheduled,
                   timers, listeners, dom, players, afterCloseCalls, lastAdStart, last>>

Next ==
    \/ CallWithOptions
    \/ CallWithSelector
    \/ ClickTrigger
    \/ Message
    \/ ClickModalClose
    \/ ClickContainerClose
    \/ ClickHeadline
    \/ PlayerAdStart
    \/ PlayerAdEnd
    \/ TimerDisplayAd
    \/ TimerSetup
    \/ TimerFallback
    \/ TimerSwitch
    \/ TimerCountdown
    \/ Advance

Spec == Init /\ [][Next]_vars

(***************************************************************************)
(* Option resolution on its own: the page fills sessionStorage,            *)
(* window.funnelmecfg and the options object it will pass, then calls the  *)
(* entry point.                                                            *)
(***************************************************************************)
\* the option keys the three sources are filled with
ResolvedKeys == {"content", "countdownDuration", "download"}

\* what sessionStorage holds: strings
StoredValues == {Str("taboola"), Str(""), NumStr(5)}

\* what a page script assigns to a property
AssignedValues == {Str("taboola"), Num(0), Num(5), Bool(FALSE)}

\* entries the three sources hold together
Entries ==
    Cardinality(DOMAIN sessionStorage) + Cardinality(DOMAIN funnelmecfg)
        + Cardinality(DOMAIN pageOpts.props)

\* obj[k] = v
Put(obj, k, v) == [x \in (DOMAIN obj) \cup {k} |-> IF x = k THEN v ELSE obj[x]]

InitOpt ==
    /\ sessionStorage = NoStorage
    /\ storageMode \in {"ok", "throws", "absent"}
    /\ funnelmecfg = EmptyObject
    /\ pageOpts \in {Obj(EmptyObject), NoArg}
    /\ lang = "en"
    /\ marker404 = FALSE
    /\ InitProgram

\* the program has not run yet and a source can take one more entry
Filling ==
    /\ last.op = "init"
    /\ Entries < MaxEntries
    /\ UNCHANGED <<now, budget, options, moduleOptions, error404, modal, container,
                   player, playerInitialized, adsharecountdownstart, startedVideoAd,
                   anotherAdScheduled, closingOfPopupScheduled,
                   timers, listeners, dom, players, afterCloseCalls, lastAdStart, last,
                   lang,
                   marker404, storageMode>>

\* sessionStorage.setItem(k, v), by an earlier page of the session
SetItem ==
    /\ Filling
    /\ storageMode # "absent"
    /\ \E k \in ResolvedKeys \ DOMAIN sessionStorage, v \in StoredValues :
           sessionStorage' = Put(sessionStorage, k, v)
    /\ UNCHANGED <<funnelmecfg, pageOpts>>

\* window.funnelmecfg = { .., k: v }
SetConfig ==
    /\ Filling
    /\ \E k \in ResolvedKeys \ DOMAIN funnelmecfg, v \in AssignedValues :
           funnelmecfg' = Put(funnelmecfg, k, v)
    /\ UNCHANGED <<sessionStorage, pageOpts>>

\* the options object the page will pass gets a property k: v
SetOption ==
    /\ Filling
    /\ Truthy(pageOpts.self)
    /\ \E k \in ResolvedKeys \ DOMAIN pageOpts.props, v \in AssignedValues :
           pageOpts' = Obj(Put(pageOpts.props, k, v))
    /\ UNCHANGED <<sessionStorage, funnelmecfg>>

NextOpt ==
    \/ SetItem
    \/ SetConfig
    \/ SetOption
    \/ CallWithOptions

SpecOpt == InitOpt /\ [][NextOpt]_vars

(***************************************************************************)
(* The countdown on its own: pages that differ in the configured duration. *)
(***************************************************************************)
\* the longest configured countdown, in units
MaxDuration == 3

CountdownPages ==
    { Literal([content |-> Str("taboola"), integration |-> Str(i),
               countdownDuration |-> Num(d), closeModalAutomatically |-> Bool(a),
               afterClose |-> Fn("afterClose")]) :
        i \in {"modal", "native"}, d \in 0..MaxDuration, a \in BOOLEAN }

InitCountdown ==
    /\ sessionStorage = NoStorage
    /\ storageMode = "ok"
    /\ funnelmecfg = EmptyObject
    /\ pageOpts \in CountdownPages
    /\ lang = "en"
    /\ marker404 = FALSE
    /\ InitProgram

NextCountdown ==
    \/ CallWithOptions
    \/ ClickModalClose
    \/ ClickContainerClose
    \/ ClickHeadline
    \/ TimerDisplayAd
    \/ TimerCountdown
    \/ Advance

SpecCountdown == InitCountdown /\ [][NextCountdown]_vars

(***************************************************************************)
(* Properties.                                                             *)
(***************************************************************************)
\* the value the stated precedence gives key k: the first source that holds
\* the key, in the order session storage, funnelmecfg, caller options, default
PrecedenceValue(k) ==
    IF storageMode = "ok" /\ k \in DOMAIN sessionStorage THEN sessionStorage[k]
    ELSE IF k \in DOMAIN funnelmecfg THEN funnelmecfg[k]
    ELSE IF k \in DOMAIN options.props THEN options.props[k]
    ELSE defaultOptions[k]

\* C1: after the entry point has resolved an options object, every key has the
\* value of the first source holding it, in the order session storage (when
\* readable), funnelmecfg, caller options, built-in default; download is
\* compared after the string-to-boolean step.
C1_Precedence ==
    (last.op = "adshareModal" /\ Truthy(options.self)) =>
        \A k \in ResolvedKeys :
            moduleOptions[k] =
                IF k = "download" THEN StringToBoolean(PrecedenceValue(k))
                ELSE PrecedenceValue(k)

\* C2: the references modal and container are never both non-null.
C2_NeverBothHosts == ~(modal # "null" /\ container # "null")

\* C3: whenever closePopup has returned in the handler that ran last, modal and
\* container are null, player is null and playerInitialized is false.
C3_ClosePopupClears ==
    last.closeReturned =>
        /\ modal = "null"
        /\ container = "null"
        /\ player = "null"
        /\ ~playerInitialized

\* closePopup returned from a state with an active host after a player had
\* been set up
C3_ClosedWithPlayer ==
    /\ last.closeReturned
    /\ last.hostAtClose \in {"modal", "container"}
    /\ players.wired > 0

\* C4: at most one player instance created by setupVideoJsPlayer is live.
C4_AtMostOneLivePlayer == players.wired <= 1

\* the handlers that are a plain call of closePopup
CloseOps == {"closepopup", "containerCloseClick", "headlineClick"}

\* C5: a closePopup call made while no host is active (a second close) raises
\* no error, leaves both references null, removes no host element and does
\* not invoke afterClose.
C5_SecondCloseNoTeardown ==
    [][(last'.op \in CloseOps /\ last'.hostBefore = "none") =>
          /\ ~last'.threw
          /\ modal' = "null"
          /\ container' = "null"
          /\ dom'.pico = dom.pico
          /\ dom'.boxes = dom.boxes
          /\ afterCloseCalls' = afterCloseCalls]_vars

\* a closepopup message handled with no active host, after an earlier close
\* of a host had invoked afterClose
C5_ClosedTwice ==
    /\ last.op = "closepopup"
    /\ last.hostBefore = "none"
    /\ last.closeReturned
    /\ afterCloseCalls >= 1

\* C6: a display function that ran while a host was active created no host.
C6_DisplayReusesHost ==
    (last.disp # "none" /\ last.hostBefore # "none") => last.created = 0

\* the decision table: the display function for a content value and a
\* browser language on a page without the 404 marker
DecisionTable(content, lg) ==
    CASE content = "optimizely1" /\ lg = "de" -> "displayContentIframe"
      [] content = "optimizely1" /\ lg # "de" -> "displayVideoAd"
      [] content \in {"smart", "mix1", "mix2", "taboola"} -> "displayTalooba"
      [] content = "videobanner" -> "displayVideoBanner"
      [] content = "video" -> "displayVideoAd"
      [] content = "taboola2ndcall" -> "displayTalooba2ndCall"
      [] content = "banner" -> "displayBannerAd"
      [] content = "contentad" -> "displayContentAdV2"
      [] content = "contentadfunnel" -> "displayContentAdFunnel"
      [] content = "iframe" -> "displayContentIframe"
      [] OTHER -> "none"

\* C7: displayAd follows the decision table: with the 404 marker it sets
\* error404 and shows the 404 iframe variant; otherwise it calls the display
\* function of the table for the content value and the language; for any
\* other content value it calls none, creates no host and leaves the host
\* references as they were.
C7_DisplayAdDecision ==
    last.op = "displayAd" =>
        IF marker404
        THEN /\ error404
             /\ last.disp = "displayContent404Iframe"
             /\ dom.shown = "iframe404"
        ELSE /\ last.disp = DecisionTable(moduleOptions["content"].s, lang)
             /\ last.disp = "none" =>
                    (last.created = 0 /\ HostKind(Cur) = last.hostBefore)

\* displayAd took the German branch of 'optimizely1'
C7_GermanOptimizely ==
    /\ last.op = "displayAd"
    /\ ~marker404
    /\ EqStr(moduleOptions["content"], "optimizely1")
    /\ lang = "de"
    /\ last.disp = "displayContentIframe"
    /\ dom.shown = "iframe"

\* C8: when a delayed-switch timer fires, the second variant is displayed if
\* and only if a host (modal or container) is open.
C8_SwitchIffHostOpen ==
    last.op = "switch" => (last.disp # "none" <=> last.hostBefore # "none")

\* C9: when the videoAdTimeout timer fires with startedVideoAd false,
\* ima.adTagUrl becomes fallBackAdTagUrl, the previous player is disposed, one
\* player setup is scheduled and no further retry; with startedVideoAd true
\* the configuration and the player are left as they were.
C9_FallbackRetry ==
    [][(last'.op = "fallback" /\ timers' # timers) =>
          IF startedVideoAd
          THEN /\ moduleOptions' = moduleOptions
               /\ player' = player
               /\ players' = players
          ELSE /\ moduleOptions'["ima.adTagUrl"] = moduleOptions["fallBackAdTagUrl"]
               /\ players'.live = 0
               /\ Len(SelectSeq(timers', LAMBDA x : x.kind = "setup")) = 1
               /\ Len(SelectSeq(timers', LAMBDA x : x.kind = "fallback"))
                      < Len(SelectSeq(timers, LAMBDA x : x.kind = "fallback"))]_vars

\* offsets from the start that are probed: one millisecond before, at and
\* after each unit boundary
ProbeOffsets ==
    UNION {{u * 1250 - 1, u * 1250, u * 1250 + 1} : u \in 0..(MaxDuration + 1)} \ {0 - 1}

\* C10: for the recorded start and the configured integer duration,
\* getCountdownTimeLeft is duration - floor((now - start) / 1250), does not
\* increase with now, and is <= 0 exactly when now - start >= duration * 1250.
C10_TimeLeft ==
    (adsharecountdownstart # Undefined /\ moduleOptions["countdownDuration"].t = "num") =>
        LET d == moduleOptions["countdownDuration"].n
            st == adsharecountdownstart
            left(x) == getCountdownTimeLeft(d, st, st + x)
        IN  /\ \A x \in ProbeOffsets \cup {now - st} :
                   /\ (d - left(x)) * 1250 <= x
                   /\ x < (d - left(x) + 1) * 1250
                   /\ (left(x) <= 0) <=> (x >= d * 1250)
            /\ \A x, y \in ProbeOffsets : x <= y => left(y) <= left(x)

\* a poll found a countdown of two units elapsed, 2500 ms after its start
C10_TwoUnitsElapsed ==
    /\ last.op = "countdown"
    /\ moduleOptions["countdownDuration"] = Num(2)
    /\ now - adsharecountdownstart = 2500
    /\ dom.closeShown

\* a poll of the countdown chain is pending, due one polling interval from now
PollPendingFromNow ==
    \E i \in DOMAIN timers :
        timers[i].kind = "countdown" /\ timers[i].due = now + CountdownPollMs

\* C11: on a page without the 404 marker, a handler that created a host (modal
\* or native container) started a countdown (start recorded now, first poll
\* pending) if and only if countdownDuration > 0.
C11_CountdownIffPositive ==
    (last.created > 0 /\ ~marker404) =>
        ((adsharecountdownstart = now /\ PollPendingFromNow)
            <=> GtZero(moduleOptions["countdownDuration"]))

\* the polls of the countdown chain that are pending in a timer queue
Polls(q) == SelectSeq(q, LAMBDA x : x.kind = "countdown")

\* the step is a poll of the countdown chain
PollStep == last'.op = "countdown" /\ timers' # timers

\* time left at the current instant, for a numeric duration
TimeLeftNow ==
    ToNumber(moduleOptions["countdownDuration"])
        - ((now - adsharecountdownstart) \div 1250)

\* C12: a poll of the countdown chain that finds time left > 0 schedules
\* exactly one further poll, due 100 ms later; a poll that finds time
\* left <= 0 schedules none and leaves the close button revealed unless the
\* host is gone.
C12_PollChain ==
    [][(PollStep /\ ~IsNaN(moduleOptions["countdownDuration"])
            /\ adsharecountdownstart # Undefined) =>
          IF TimeLeftNow > 0
          THEN /\ Len(Polls(timers')) = Len(Polls(timers))
               /\ timers'[Len(timers')] = [kind |-> "countdown", due |-> now + 100]
          ELSE /\ Len(Polls(timers')) = Len(Polls(timers)) - 1
               /\ HasPicoClose(Cur) => (dom'.closeShown \/ (dom'.pico = 0 /\ dom'.boxes = <<>>))]_vars

\* the countdown has a numeric duration and a recorded start
CountdownStarted ==
    ~IsNaN(moduleOptions["countdownDuration"]) /\ adsharecountdownstart # Undefined

\* C13: a poll that finds the countdown elapsed while a host is active leaves
\* both host references null when closeModalAutomatically is true, and leaves
\* them as they were when it is false.
C13_ElapsedClosesWhenAutomatic ==
    [][(PollStep /\ CountdownStarted /\ TimeLeftNow <= 0 /\ HostKind(Cur) # "none") =>
          IF Truthy(moduleOptions["closeModalAutomatically"])
          THEN modal' = "null" /\ container' = "null"
          ELSE modal' = modal /\ container' = container]_vars

\* no option resolution has happened yet: the configuration is still the
\* empty object the script starts with
Unresolved == moduleOptions = EmptyConfig

\* the entry point ran its selector-string branch / its options branch
SelectorStep == last'.op = "adshareModal" /\ listeners'.click # listeners.click
OptionsStep == last'.op = "adshareModal" /\ timers' # timers

\* the selector-string form resolves nothing, schedules nothing and touches no host
C14_SelectorFormInert ==
    [][SelectorStep =>
          /\ UNCHANGED <<moduleOptions, options, timers, modal, container, dom>>
          /\ Len(listeners'.click) = Len(listeners.click) + 1]_vars

\* the options form resolves at once, schedules one displayAd after
\* timeout ms and creates no host in the call itself
C14_OptionsFormDeferred ==
    [][OptionsStep =>
          /\ moduleOptions' = applyOptions(storageMode, sessionStorage, funnelmecfg, pageOpts)
          /\ timers' = Append(timers, [kind |-> "displayAd",
                                       due |-> now + TimerDelay(moduleOptions'["timeout"])])
          /\ UNCHANGED <<modal, container, dom>>]_vars

\* C14: the selector-string form of the entry point resolves no options,
\* schedules nothing and creates no host, and no host appears for as long as
\* the options stay unresolved (that is, until the element is clicked); the
\* options form resolves the options in the call, schedules exactly one
\* displayAd due timeout ms later and creates no host in the call.
C14_EntryForms ==
    [][/\ SelectorStep =>
              /\ UNCHANGED <<moduleOptions, options, timers, modal, container, dom>>
              /\ Len(listeners'.click) = Len(listeners.click) + 1
       /\ (Unresolved /\ Unresolved') => (modal' = "null" /\ container' = "null")
       /\ OptionsStep =>
              /\ moduleOptions' = applyOptions(storageMode, sessionStorage, funnelmecfg, pageOpts)
              /\ timers' = Append(timers, [kind |-> "displayAd",
                                           due |-> now + TimerDelay(moduleOptions'["timeout"])])
              /\ UNCHANGED <<modal, container, dom>>]_vars

\* a message of the given type was delivered to receiveMessage in this step
MessageStep(type) == last'.op = type /\ now' = now

SwitchTypes == {"displaybanner", "taboola", "contentreco", "closetaboola"}

\* 'closepopup' leaves both host references null
C15_ClosePopupMessage ==
    [][MessageStep("closepopup") => (modal' = "null" /\ container' = "null")]_vars

\* with a host active, the switching messages create no further host (the
\* display function may close the active one when the countdown has elapsed)
C15_SwitchKeepsActiveHost ==
    [][\A type \in SwitchTypes :
          (MessageStep(type) /\ HostKind(Cur) # "none") =>
              (modal' \in {modal, "null"} /\ container' \in {container, "null"})]_vars

\* C15: a 'displaybanner', 'taboola', 'contentreco' or 'closetaboola'
\* message works within the existing host: it sets no host reference that
\* was null before, so it creates no host when none is active; a
\* 'closepopup' message leaves both host references null.
C15_MessagesKeepHost ==
    [][/\ \A type \in SwitchTypes :
              MessageStep(type) =>
                  (modal' \in {modal, "null"} /\ container' \in {container, "null"})
       /\ MessageStep("closepopup") => (modal' = "null" /\ container' = "null")]_vars

\* C16: whenever a host is open, receiveMessage is registered as the
\* window's message listener, so that a message posted then (a 'closepopup'
\* in particular) is delivered to it, whichever entry form started the
\* session.
C16_MessagesHandledWhileOpen ==
    HostKind(Cur) # "none" => listeners.message

(***************************************************************************)
(* Option resolution of the boolean-like options, the countdown duration   *)
(* and the two ad-tag keys: the three sources are filled with values of    *)
(* the kind each key takes, then the entry point is called.                *)
(***************************************************************************)
BooleanKeys == {"closeModalAutomatically", "debug", "download"}

FlagKeys == BooleanKeys \cup {"countdownDuration", "adTagUrl", "vastEndPoint"}

\* what sessionStorage holds under key k: strings
StoredFlagValues(k) ==
    CASE k \in BooleanKeys -> {Str("true"), Str("false")}
      [] k = "countdownDuration" -> {NumStr(0), NumStr(5)}
      [] k = "adTagUrl" -> {Str("tag")}
      [] OTHER -> {Str("vast")}

\* what a page script assigns to property k
AssignedFlagValues(k) ==
    CASE k \in BooleanKeys -> {Str("true"), Str("false"), Bool(TRUE), Bool(FALSE)}
      [] k = "countdownDuration" -> {NumStr(0), Num(0), Num(-1), Num(5)}
      [] k = "adTagUrl" -> {Str("tag")}
      [] OTHER -> {Str("vast")}

InitFlags ==
    /\ sessionStorage = NoStorage
    /\ storageMode = "ok"
    /\ funnelmecfg = EmptyObject
    /\ pageOpts = Obj(EmptyObject)
    /\ lang = "en"
    /\ marker404 = FALSE
    /\ InitProgram

\* sessionStorage.setItem(k, v), by an earlier page of the session
SetItemFlag ==
    /\ Filling
    /\ \E k \in FlagKeys \ DOMAIN sessionStorage :
           \E v \in StoredFlagValues(k) : sessionStorage' = Put(sessionStorage, k, v)
    /\ UNCHANGED <<funnelmecfg, pageOpts>>

\* window.funnelmecfg = { .., k: v }
SetConfigFlag ==
    /\ Filling
    /\ \E k \in FlagKeys \ DOMAIN funnelmecfg :
           \E v \in AssignedFlagValues(k) : funnelmecfg' = Put(funnelmecfg, k, v)
    /\ UNCHANGED <<sessionStorage, pageOpts>>

\* the options object the page will pass gets a property k: v
SetOptionFlag ==
    /\ Filling
    /\ \E k \in FlagKeys \ DOMAIN pageOpts.props :
           \E v \in AssignedFlagValues(k) : pageOpts' = Obj(Put(pageOpts.props, k, v))
    /\ UNCHANGED <<sessionStorage, funnelmecfg>>

NextFlags ==
    \/ SetItemFlag
    \/ SetConfigFlag
    \/ SetOptionFlag
    \/ CallWithOptions

SpecFlags == InitFlags /\ [][NextFlags]_vars

\* what the three sources resolve to for an option, before the default
Supplied(name) ==
    Or(getSessionStorageOverride(storageMode, sessionStorage, name),
       Or(Get(funnelmecfg, name), Get(pageOpts.props, name)))

\* the string "true" or the string "false"
IsBooleanString(v) == EqStr(v, "true") \/ EqStr(v, "false")

\* applyOptions has run on the page's options object
Resolved == last.op = "adshareModal" /\ Truthy(pageOpts.self)

\* download supplied as "true"/"false" ends as the boolean
C17_DownloadNormalised ==
    (Resolved /\ IsBooleanString(Supplied("download"))) =>
        moduleOptions["download"] = Bool(EqStr(Supplied("download"), "true"))

\* closeModalAutomatically supplied as "true"/"false" ends as a boolean: the
\* one the string names while the countdown is positive
C17_CloseAutomaticallyNormalised ==
    (Resolved /\ IsBooleanString(Supplied("closeModalAutomatically"))) =>
        /\ moduleOptions["closeModalAutomatically"].t = "bool"
        /\ GtZero(moduleOptions["countdownDuration"]) =>
              moduleOptions["closeModalAutomatically"]
                  = Bool(EqStr(Supplied("closeModalAutomatically"), "true"))

\* C17: after applyOptions on an options object, an option among
\* closeModalAutomatically, debug (the source of ima.debug) and download that
\* the sources resolved to the string "true" or "false" is effective as the
\* boolean of that name: "true" -> true, "false" -> false
\* (closeModalAutomatically only while the countdown is positive).
C17_StringsBecomeBooleans ==
    Resolved =>
        /\ IsBooleanString(Supplied("download")) =>
              moduleOptions["download"] = Bool(EqStr(Supplied("download"), "true"))
        /\ IsBooleanString(Supplied("closeModalAutomatically")) =>
              /\ moduleOptions["closeModalAutomatically"].t = "bool"
              /\ GtZero(moduleOptions["countdownDuration"]) =>
                    moduleOptions["closeModalAutomatically"]
                        = Bool(EqStr(Supplied("closeModalAutomatically"), "true"))
        /\ IsBooleanString(Supplied("debug")) =>
              moduleOptions["ima.debug"] = Bool(EqStr(Supplied("debug"), "true"))

\* C18: after applyOptions, an effective countdownDuration that is <= 0
\* comes with an effective closeModalAutomatically of false, whatever the
\* sources supplied for closeModalAutomatically.
C18_NoAutoCloseWithoutCountdown ==
    (Resolved /\ ~IsNaN(moduleOptions["countdownDuration"])
              /\ ToNumber(moduleOptions["countdownDuration"]) <= 0) =>
        moduleOptions["closeModalAutomatically"] = Bool(FALSE)

\* a source asked for automatic closing, as the string "true", and the
\* countdown resolved to zero
C18_TrueStringForcedFalse ==
    /\ Resolved
    /\ ToNumber(moduleOptions["countdownDuration"]) = 0
    /\ Supplied("closeModalAutomatically") = Str("true")

\* C19: once applyOptions has resolved the configuration, no step changes a
\* field of it other than ima.adTagUrl, and ima.adTagUrl changes only in the
\* callback of the video fallback timer.
C19_ConfigurationImmutable ==
    [][~Unresolved =>
          /\ \A f \in ConfigFields \ {"ima.adTagUrl"} : moduleOptions'[f] = moduleOptions[f]
          /\ moduleOptions'["ima.adTagUrl"] # moduleOptions["ima.adTagUrl"]
                 => last'.op = "fallback"]_vars

\* the vastEndPoint the code looks for: in sessionStorage and in the
\* caller's options
SuppliedVastEndPoint ==
    Or(getSessionStorageOverride(storageMode, sessionStorage, "vastEndPoint"),
       Get(pageOpts.props, "vastEndPoint"))

\* with no adTagUrl supplied, a supplied vastEndPoint is the ad-tag URL
C20_VastEndPointAlone ==
    (Resolved /\ ~Truthy(Supplied("adTagUrl")) /\ Truthy(SuppliedVastEndPoint)) =>
        moduleOptions["ima.adTagUrl"] = SuppliedVastEndPoint

\* C20: after applyOptions, ima.adTagUrl is the adTagUrl the sources
\* supplied whenever they supplied one; a supplied vastEndPoint is the
\* ad-tag URL only when no adTagUrl was supplied.
C20_VastEndPointOnlyFallback ==
    Resolved =>
        /\ Truthy(Supplied("adTagUrl")) =>
              moduleOptions["ima.adTagUrl"] = Supplied("adTagUrl")
        /\ (~Truthy(Supplied("adTagUrl")) /\ Truthy(SuppliedVastEndPoint)) =>
              moduleOptions["ima.adTagUrl"] = SuppliedVastEndPoint

\* a handler ran in this step and it entered closePopup, or it was the click
\* on the modal's close button
CloseStep == now' = now /\ (last'.closeCalls > 0 \/ last'.op = "modalCloseClick")

\* the configured afterClose is a function
AfterCloseConfigured == moduleOptions["afterClose"].t = "fn"

\* C21: a handler that closes the session (through closePopup or through the
\* modal's close button) invokes the configured afterClose callback exactly
\* once when a host was active, for either host kind, and not at all when no
\* host was active.
C21_AfterCloseOncePerClose ==
    [][(CloseStep /\ AfterCloseConfigured) =>
          afterCloseCalls' = afterCloseCalls + (IF HostKind(Cur) # "none" THEN 1 ELSE 0)]_vars

\* the visitor closed an open modal with its close button; closePopup was
\* re-entered from the library's afterClose hook and the callback ran once
C21_ModalClosedByButton ==
    /\ last.op = "modalCloseClick"
    /\ last.hostBefore = "modal"
    /\ last.closeCalls >= 1
    /\ AfterCloseConfigured
    /\ afterCloseCalls = 1

(***************************************************************************)
(* The two guarded schedulers, called by the page's scripts in any order.  *)
(***************************************************************************)
ScheduleDelayMs == 50

\* scheduleAnotherAd with a guard on its own flag only
scheduleAnotherAdOwnFlag(s) ==
    IF ~s.anotherAdScheduled
    THEN SetTimeout([s EXCEPT !.anotherAdScheduled = TRUE], "anotherAd", ScheduleDelayMs)
    ELSE s

\* scheduleAnotherAd()
scheduleAnotherAd(s) ==
    IF ~s.closingOfPopupScheduled /\ ~s.anotherAdScheduled
    THEN SetTimeout([s EXCEPT !.anotherAdScheduled = TRUE], "anotherAd", ScheduleDelayMs)
    ELSE s

\* scheduleClosingOfPopup()
scheduleClosingOfPopup(s) ==
    IF /\ ~s.closingOfPopupScheduled
       /\ ~s.anotherAdScheduled
       /\ s.modal # "null"
       /\ Truthy(s.moduleOptions["closeModalAutomatically"])
    THEN SetTimeout([s EXCEPT !.closingOfPopupScheduled = TRUE], "closing", ScheduleDelayMs)
    ELSE s

\* the callback scheduleAnotherAd sets: displayAd(useFallback), then the flag
\* is cleared (not when displayAd throws)
anotherAdTimer(s) ==
    LET d == displayAd(s)
    IN  IF d.exc THEN d ELSE [d EXCEPT !.anotherAdScheduled = FALSE]

\* the callback scheduleClosingOfPopup sets: closePopup(), then the flag is
\* cleared (not when closePopup throws)
closingTimer(s) ==
    LET c == closePopup(s)
    IN  IF c.exc THEN c ELSE [c EXCEPT !.closingOfPopupScheduled = FALSE]

CallScheduleAnotherAd ==
    /\ Event
    /\ Commit(scheduleAnotherAd(Cur), "scheduleAnotherAd")

CallScheduleClosingOfPopup ==
    /\ Event
    /\ Commit(scheduleClosingOfPopup(Cur), "scheduleClosingOfPopup")

TimerAnotherAd ==
    /\ TimerDue({"anotherAd"})
    /\ Commit(anotherAdTimer(Fired), "anotherAd")
    /\ UNCHANGED <<envVars, now, budget>>

TimerClosing ==
    /\ TimerDue({"closing"})
    /\ Commit(closingTimer(Fired), "closing")
    /\ UNCHANGED <<envVars, now, budget>>

NextSchedule ==
    \/ CallWithOptions
    \/ CallScheduleAnotherAd
    \/ CallScheduleClosingOfPopup
    \/ ClickModalClose
    \/ TimerDisplayAd
    \/ TimerAnotherAd
    \/ TimerClosing
    \/ TimerCountdown
    \/ Advance

SpecSchedule == InitCountdown /\ [][NextSchedule]_vars

\* the scheduled callbacks (re-display or close) that are pending in q
ScheduledCallbacks(q) == SelectSeq(q, LAMBDA x : x.kind \in {"anotherAd", "closing"})

\* C22: at most one callback scheduled by scheduleAnotherAd or
\* scheduleClosingOfPopup is pending at any time, and a call of either
\* function made while either flag is true schedules nothing.
C22_OneScheduledCallback ==
    [][/\ Len(ScheduledCallbacks(timers')) <= 1
       /\ (/\ now' = now
           /\ last'.op \in {"scheduleAnotherAd", "scheduleClosingOfPopup"}
           /\ (anotherAdScheduled \/ closingOfPopupScheduled)) => timers' = timers]_vars

\* scheduleAnotherAd was called while a close was scheduled and pending
C22_CallWhileCloseScheduled ==
    /\ last.op = "scheduleAnotherAd"
    /\ closingOfPopupScheduled
    /\ Len(ScheduledCallbacks(timers)) = 1

\* C23: a handler that calls destroyVideoJsPlayer leaves player null and
\* playerInitialized false, also when disposing throws: the adend handler,
\* which is that call alone, ends without an exception, and the fallback
\* timer's callback, which calls it before displaying the video again, leaves
\* the handle cleared as well.
C23_DestroyResetsHandle ==
    [][/\ (now' = now /\ last'.op = "adend") =>
              (player' = "null" /\ ~playerInitialized' /\ ~last'.threw)
       /\ (now' = now /\ last'.op = "fallback" /\ ~startedVideoAd) =>
              (player' = "null" /\ ~playerInitialized')]_vars

\* the adend handler ran on a set-up player whose disposal threw: the
\* instance is still alive, the handle is cleared
C23_DisposeThrew ==
    /\ last.op = "adend"
    /\ ~last.threw
    /\ players.live > 0
    /\ player = "null"
    /\ ~playerInitialized

\* C24: a countdown poll that runs when no host is active any more (closePopup
\* has torn it down) raises no error, leaves both host references null and
\* does not invoke afterClose.
C24_StrayPollHarmless ==
    [][(now' = now /\ last'.op = "countdown" /\ HostKind(Cur) = "none") =>
          /\ ~last'.threw
          /\ modal' = "null"
          /\ container' = "null"
          /\ afterCloseCalls' = afterCloseCalls]_vars

\* the same without the demand that no error is raised
C24_StrayPollLeavesSessionClosed ==
    [][(now' = now /\ last'.op = "countdown" /\ HostKind(Cur) = "none") =>
          /\ modal' = "null"
          /\ container' = "null"
          /\ afterCloseCalls' = afterCloseCalls]_vars

\* C25: after the entry point was called without an options object, every key
\* for which session storage is readable and holds a non-empty value has that
\* value in the effective configuration (download after the
\* string-to-boolean step), not the built-in default.
C25_OverridesWithoutOptions ==
    (last.op = "adshareModal" /\ ~Truthy(options.self) /\ storageMode = "ok") =>
        \A k \in ResolvedKeys \cap DOMAIN sessionStorage :
            Truthy(sessionStorage[k]) =>
                moduleOptions[k] =
                    IF k = "download" THEN StringToBoolean(sessionStorage[k])
                    ELSE sessionStorage[k]

\* C26: after the entry point has resolved an options object, a key that only
\* the caller supplies, with a falsy value (false, 0), has that value in the
\* effective configuration, not the built-in default.
C26_FalsyValueKept ==
    (last.op = "adshareModal" /\ Truthy(options.self)) =>
        \A k \in ResolvedKeys \cap DOMAIN options.props :
            (/\ ~Truthy(options.props[k])
             /\ k \notin DOMAIN sessionStorage
             /\ k \notin DOMAIN funnelmecfg) => moduleOptions[k] = options.props[k]

\* the option keys whose values applyOptions puts into field f
KeysOf(f) ==
    CASE f = "playerOptions.videoPath" -> {"videoPath"}
      [] f = "ima.adTagUrl" -> {"adTagUrl", "vastEndPoint"}
      [] f = "ima.debug" -> {"debug"}
      [] f \in {"ima.id", "ima.locale", "ima.vpaidMode"} -> {}
      [] f = "closeModalAutomatically" -> {"closeModalAutomatically", "countdownDuration"}
      [] OTHER -> {f}

\* no source holds key k
Unset(k) ==
    /\ k \notin DOMAIN sessionStorage
    /\ k \notin DOMAIN funnelmecfg
    /\ k \notin DOMAIN options.props

\* the fields of the configuration other than playerOptions.videoPath keep
\* their defaults when no source sets them
C27_TopLevelDefaultsKept ==
    (last.op = "adshareModal" /\ Truthy(options.self)) =>
        \A f \in ConfigFields \ {"playerOptions.videoPath"} :
            (\A k \in KeysOf(f) : Unset(k)) => moduleOptions[f] = defaultOptions[f]

\* C27: after the entry point has resolved an options object, every field of
\* the configuration whose keys no source sets has its built-in default,
\* playerOptions.videoPath included.
C27_DefaultsKept ==
    (last.op = "adshareModal" /\ Truthy(options.self)) =>
        \A f \in ConfigFields :
            (\A k \in KeysOf(f) : Unset(k)) => moduleOptions[f] = defaultOptions[f]

\* the callback of a timer set by displayAd after the first variant runs in
\* this step
FollowUpStep ==
    /\ timers # <<>>
    /\ now' = now
    /\ last'.op \in {"fallback", "switch"}

\* the instant at which the displayAd call set the timer that runs next
FollowUpSetAt ==
    LET t == timers[NextTimer]
    IN  t.due - (CASE t.kind = "smart" -> SmartSwitchMs
                   [] t.kind \in {"mix1", "mix2"} -> MixSwitchMs
                   [] OTHER -> TimerDelay(moduleOptions["videoAdTimeout"]))

\* a variant-switch timer that runs with no host active creates none
C28_SwitchAfterCloseCreatesNoHost ==
    [][(FollowUpStep /\ last'.op = "switch" /\ HostKind(Cur) = "none") =>
          (modal' = "null" /\ container' = "null")]_vars

\* C28: a fallback or variant-switch timer set by displayAd that runs after
\* its session was closed creates no host when none is active, and leaves the
\* content of a host that was shown later than the timer was set as it is.
C28_StaleTimerNoEffect ==
    [][FollowUpStep =>
          /\ HostKind(Cur) = "none" => (modal' = "null" /\ container' = "null")
          /\ (HostKind(Cur) # "none" /\ adsharecountdownstart > FollowUpSetAt) =>
                 dom'.shown = dom.shown]_vars

\* the part of C28 about a host opened by a later session
C28_LaterHostUntouched ==
    [][FollowUpStep =>
          ((HostKind(Cur) # "none" /\ adsharecountdownstart > FollowUpSetAt) =>
               dom'.shown = dom.shown)]_vars

\* C29: at most one countdown poll is pending at any time.
C29_OnePollingChain == Len(Polls(timers)) <= 1

\* C30: when the fallback timer of a session runs, the session's displayAd
\* opened its host at the instant the timer was set, and the latest ad start
\* lies before that instant (so no ad started in this session), the retry
\* happens: ima.adTagUrl becomes fallBackAdTagUrl and displayVideoAd runs.
C30_FallbackPerSession ==
    [][(/\ FollowUpStep
        /\ last'.op = "fallback"
        /\ adsharecountdownstart = FollowUpSetAt
        /\ lastAdStart < FollowUpSetAt) =>
          /\ moduleOptions'["ima.adTagUrl"] = moduleOptions["fallBackAdTagUrl"]
          /\ last'.disp = "displayVideoAd"]_vars

====
